---- MODULE Spec2Model ----
(* Model of the load generator sender/run.py (job selector, request        *)
(* executor, quantile helper, steady-stream runner, batched-burst runner)  *)
(* and of the backend app/server.py.                                       *)
(*                                                                         *)
(* Time is the value of time.perf_counter(), counted in ticks of 0.25 s.   *)
(* The clock may advance between any two steps of any thread.              *)
EXTENDS Integers, Sequences, FiniteSets, TLC

VARIABLES cfg,      \* the environment-derived module constants of run.py
          now,      \* time.perf_counter()
          pick_i,   \* the nonlocal i of the cyclic pick()
          picks,    \* history: the labels returned by pick(), in call order
          reqs,     \* every future submitted to the pool, in submission order
          pc,       \* position of the coordinating thread
          run,      \* locals of run_case
          batch,    \* locals of run_batched_case
          pctIn, pctOut,   \* pct applied to an input
          call,     \* one_call applied to an input
          main      \* locals of the __main__ block

vars == <<cfg, now, pick_i, picks, reqs, pc, run, batch,
          pctIn, pctOut, call, main>>

----------------------------------------------------------------------------
(* Bounds of the model *)
MaxLen == 3          \* longest sequence handed to pct
MaxVal == 2          \* largest latency value handed to pct
QDen == 4            \* quantiles are k/QDen, k in 0..QDen
MaxPicks == 7        \* selector calls in the selector specification
MaxCallTime == 4     \* clock range in the executor specification

(* Program constants, in ticks of 0.25 s *)
DEFAULT_FLOOR == 1             \* floor=0.25
DEFAULT_CONNECT_TIMEOUT == 8   \* connect_timeout=2.0

None == "None"

Max(a, b) == IF a >= b THEN a ELSE b
Min(a, b) == IF a <= b THEN a ELSE b

----------------------------------------------------------------------------
(* pct: nearest-rank quantile on a sorted sequence.  q is the rational     *)
(* qn/qd; Python's round() rounds a tie to the even integer.               *)

RoundFloor(num, den) == num \div den

PyRound(num, den) ==
    LET f == num \div den
        r == num % den
    IN  IF 2 * r < den THEN f
        ELSE IF 2 * r > den THEN f + 1
        ELSE IF f % 2 = 0 THEN f ELSE f + 1

pct(arr, qn, qd) ==
    IF Len(arr) = 0 THEN 0
    ELSE LET i == Max(0, Min(Len(arr) - 1, PyRound(qn * (Len(arr) - 1), qd)))
         IN  arr[i + 1]

IsSorted(s) == \A i \in 1..(Len(s) - 1) : s[i] <= s[i + 1]

SortedSeqs ==
    { s \in UNION { [1..n -> 0..MaxVal] : n \in 0..MaxLen } : IsSorted(s) }

----------------------------------------------------------------------------
(* make_picker *)

JobLists == { <<"A">>, <<"A", "B">>, <<"A", "B", "C">> }
WeightMaps == { <<>>, << <<"A", 3>>, <<"B", 1>> >> }   \* W, in insertion order
RDen == 8     \* random.random() draws k/RDen, k in 0..RDen-1

RECURSIVE SumVals(_, _)
SumVals(w, n) == IF n = 0 THEN 0 ELSE SumVals(w, n - 1) + w[n][2]

IsWeighted(c) == c.MODE = "weighted" /\ Len(c.W) > 0

(* weighted pick(): the first key whose cumulative probability reaches r,  *)
(* the last key when none does.  r = rn/RDen, probs[k] = vals[k]/tot.      *)
PickWeighted(c, rn) ==
    LET tot == SumVals(c.W, Len(c.W))
        hit == { k \in 1..Len(c.W) : rn * tot <= SumVals(c.W, k) * RDen }
    IN  IF hit = {} THEN c.W[Len(c.W)][1]
        ELSE c.W[CHOOSE k \in hit : \A m \in hit : k <= m][1]

(* the index advanced before it is used *)
PickCyclicOffByOne(c, i) == c.JOBS[((i + 1) % Len(c.JOBS)) + 1]

(* cyclic pick(): JOBS[i % len(JOBS)] *)
PickCyclic(c, i) == c.JOBS[(i % Len(c.JOBS)) + 1]

(* One call of the selector: the labels it may return and the new i. *)
PickResults(c, i) ==
    IF IsWeighted(c)
    THEN { [job |-> PickWeighted(c, rn), i |-> i] : rn \in 0..(RDen - 1) }
    ELSE { [job |-> PickCyclic(c, i), i |-> i + 1] }

----------------------------------------------------------------------------
(* one_call *)

Labels == {"A", "B", "C"}

(* What the transport hands back to one_call. *)
(* body.parse: "malformed" (r.json() raises), "nondict" (JSON that is no   *)
(* object, .get raises) or "dict"; body.job is the value of its "job" key, *)
(* None when the key is missing, null or empty.  A failure carries no body.*)
NoBody == [ parse |-> "malformed", job |-> None ]
Bodies ==
    { NoBody, [ parse |-> "nondict", job |-> None ] }
    \cup { [ parse |-> "dict", job |-> j ] : j \in Labels \cup {None} }
Upstreams == {"u1", None}
Responses ==
    { [ kind |-> k, body |-> NoBody, upstream |-> None ] :
        k \in {"transport", "timeout", "status"} }
    \cup { [ kind |-> "ok", body |-> b, upstream |-> u ] : b \in Bodies, u \in Upstreams }

Remaining(floor, deadline, t0) == Max(floor, deadline - t0)

ReadTimeoutNoFloor(floor, deadline, t0, req_timeout) == Min(deadline - t0, req_timeout)

ReadTimeout(floor, deadline, t0, req_timeout) ==
    Min(Remaining(floor, deadline, t0), req_timeout)

(* r.json().get("job") or job, inside try/except *)
EchoJob(body, job) ==
    IF body.parse # "dict" THEN job
    ELSE IF body.job = None THEN job ELSE body.job

SampleAlwaysEcho(job, resp, elapsed, capture) ==
    IF capture = 1
    THEN <<resp.body.job, elapsed, resp.kind = "ok", resp.upstream>>
    ELSE <<resp.body.job, elapsed, resp.kind = "ok">>

(* The tuple one_call returns. *)
Sample(job, resp, elapsed, capture) ==
    IF resp.kind = "ok"
    THEN IF capture = 1
         THEN <<EchoJob(resp.body, job), elapsed, TRUE, resp.upstream>>
         ELSE <<EchoJob(resp.body, job), elapsed, TRUE>>
    ELSE IF capture = 1
         THEN <<job, elapsed, FALSE, None>>
         ELSE <<job, elapsed, FALSE>>

----------------------------------------------------------------------------
(* Idle values of the parts a specification does not exercise *)

DefaultCfg ==
    [ MODE |-> "cycle", JOBS |-> <<"A", "B">>, W |-> <<>>,
      CONCURRENCY |-> 1, DURATION |-> 1, inter_arrival |-> 0,
      CAPTURE_UPSTREAM |-> 0, REQ_TIMEOUT |-> 1,
      batches |-> 1, batch_requests |-> 1 ]

IdleRun == [ phase |-> "idle" ]
IdleBatch == [ phase |-> "idle" ]
IdleCall == [ st |-> "idle" ]
IdleMain == [ i |-> 0 ]
IdlePct == [ arr |-> <<>>, q1 |-> 0, q2 |-> 0 ]

----------------------------------------------------------------------------
(* Specification of pct *)

InitPct ==
    /\ cfg = DefaultCfg /\ now = 0 /\ pick_i = 0 /\ picks = <<>> /\ reqs = <<>>
    /\ pc = "pct" /\ run = IdleRun /\ batch = IdleBatch /\ call = IdleCall
    /\ pctIn \in [ arr : SortedSeqs, q1 : 0..QDen, q2 : 0..QDen ]
    /\ pctIn.q1 <= pctIn.q2
    /\ pctOut = <<>> /\ main = IdleMain

ApplyPct ==
    /\ pc = "pct" /\ pctOut = <<>>
    /\ pctOut' = << pct(pctIn.arr, pctIn.q1, QDen), pct(pctIn.arr, pctIn.q2, QDen) >>
    /\ UNCHANGED <<cfg, now, pick_i, picks, reqs, pc, run, batch, pctIn, call, main>>

NextPct == ApplyPct
SpecPct == InitPct /\ [][NextPct]_vars

Abs(x) == IF x < 0 THEN -x ELSE x

(* i is the integer nearest to num/den, the even one of the two at a tie *)
NearestRank(i, num, den) ==
    /\ Abs(2 * num - 2 * i * den) <= den
    /\ (Abs(2 * num - 2 * i * den) = den => i % 2 = 0)

(* C8: for a sorted sequence of n > 0 elements and q in [0,1], pct returns *)
(* the element at an index in [0, n-1] that is the rounding of q*(n-1);    *)
(* it is non-decreasing in q, the minimum at q = 0 and the maximum at      *)
(* q = 1; for the empty sequence it returns zero.                          *)
C8_PctNearestRank ==
    pctOut # <<>> =>
        LET arr == pctIn.arr
            n == Len(arr)
            qs == << pctIn.q1, pctIn.q2 >>
        IN  /\ (n = 0 => pctOut = <<0, 0>>)
            /\ (n > 0 =>
                  /\ \A s \in 1..2 : \E i \in 0..(n - 1) :
                        /\ pctOut[s] = arr[i + 1]
                        /\ NearestRank(i, qs[s] * (n - 1), QDen)
                  /\ pctOut[1] <= pctOut[2]
                  /\ (pctIn.q1 = 0 => \A k \in 1..n : pctOut[1] <= arr[k])
                  /\ (pctIn.q2 = QDen => \A k \in 1..n : arr[k] <= pctOut[2]))

(* both ends of <<0, 1, 2>>: q = 0 and q = 1 *)
C8_Witness ==
    /\ pctIn.arr = <<0, 1, 2>> /\ pctIn.q1 = 0 /\ pctIn.q2 = QDen
    /\ pctOut = <<0, 2>>

----------------------------------------------------------------------------
(* Specification of the selector *)

InitPicker ==
    /\ cfg \in { [DefaultCfg EXCEPT !.MODE = m, !.JOBS = j, !.W = w] :
                 m \in {"cycle", "weighted"}, j \in JobLists, w \in WeightMaps }
    /\ now = 0 /\ pick_i = 0 /\ picks = <<>> /\ reqs = <<>>
    /\ pc = "picker" /\ run = IdleRun /\ batch = IdleBatch /\ call = IdleCall
    /\ pctIn = IdlePct /\ pctOut = <<>> /\ main = IdleMain

PickerCall ==
    /\ pc = "picker" /\ Len(picks) < MaxPicks
    /\ \E p \in PickResults(cfg, pick_i) :
          /\ picks' = Append(picks, p.job)
          /\ pick_i' = p.i
    /\ UNCHANGED <<cfg, now, reqs, pc, run, batch, pctIn, pctOut, call, main>>

NextPicker == PickerCall
SpecPicker == InitPicker /\ [][NextPicker]_vars

(* C7: unless the mode is weighted with weights configured, the k-th call  *)
(* (k = 0, 1, ...) of the selector yields JOBS[k mod n]; this covers the   *)
(* weighted mode with no weights.                                          *)
C7_CyclicOrder ==
    ~(cfg.MODE = "weighted" /\ cfg.W # <<>>) =>
        \A k \in 0..(Len(picks) - 1) :
            picks[k + 1] = cfg.JOBS[(k % Len(cfg.JOBS)) + 1]

C7_Witness ==
    /\ cfg.MODE = "weighted" /\ cfg.W = <<>>
    /\ cfg.JOBS = <<"A", "B", "C">>
    /\ picks = <<"A", "B", "C", "A", "B", "C", "A">>

----------------------------------------------------------------------------
(* Specification of one_call *)

InitCall ==
    /\ cfg \in { [DefaultCfg EXCEPT !.CAPTURE_UPSTREAM = c, !.REQ_TIMEOUT = r] :
                 c \in {0, 1}, r \in 1..3 }
    /\ now = 0 /\ pick_i = 0 /\ picks = <<>> /\ reqs = <<>>
    /\ pc = "call" /\ run = IdleRun /\ batch = IdleBatch
    /\ pctIn = IdlePct /\ pctOut = <<>> /\ main = IdleMain
    /\ call \in [ st : {"new"}, job : {"A", "B"}, deadline : 0..MaxCallTime,
                  floor : 1..2 ]

CallTick ==
    /\ pc = "call" /\ now < MaxCallTime
    /\ now' = now + 1
    /\ UNCHANGED <<cfg, pick_i, picks, reqs, pc, run, batch, pctIn, pctOut, call, main>>

(* lines 92-95: t0, remaining, read_timeout *)
CallBegin ==
    /\ pc = "call" /\ call.st = "new"
    /\ call' = [ st |-> "sent", job |-> call.job, deadline |-> call.deadline,
                 floor |-> call.floor, t0 |-> now,
                 timeout |-> << DEFAULT_CONNECT_TIMEOUT,
                                ReadTimeout(call.floor, call.deadline, now,
                                            cfg.REQ_TIMEOUT) >> ]
    /\ UNCHANGED <<cfg, now, pick_i, picks, reqs, pc, run, batch, pctIn, pctOut, main>>

(* lines 96-112: the response or the exception, and the returned tuple *)
CallReturn ==
    /\ pc = "call" /\ call.st = "sent"
    /\ \E resp \in Responses :
          call' = [ st |-> "returned", job |-> call.job, deadline |-> call.deadline,
                    floor |-> call.floor, t0 |-> call.t0, timeout |-> call.timeout,
                    resp |-> resp,
                    ret |-> Sample(call.job, resp, now - call.t0,
                                   cfg.CAPTURE_UPSTREAM) ]
    /\ UNCHANGED <<cfg, now, pick_i, picks, reqs, pc, run, batch, pctIn, pctOut, main>>

NextCall == CallTick \/ CallBegin \/ CallReturn
SpecCall == InitCall /\ [][NextCall]_vars

CallLeft == call.deadline - call.t0      \* deadline - now, at the call's start

(* C9 as stated: the read timeout is min(max(floor, deadline - now),       *)
(* REQ_TIMEOUT), it is positive, and it is at least the floor whenever     *)
(* deadline - now is below the floor.                                      *)
C9_FloorDominates ==
    call.st \in {"sent", "returned"} =>
        /\ call.timeout[2] =
              (LET m == IF call.floor >= CallLeft THEN call.floor ELSE CallLeft
               IN  IF m <= cfg.REQ_TIMEOUT THEN m ELSE cfg.REQ_TIMEOUT)
        /\ call.timeout[2] > 0
        /\ (CallLeft < call.floor => call.timeout[2] >= call.floor)

(* C9, amended: the read timeout is min(max(floor, deadline - now),        *)
(* REQ_TIMEOUT), it is positive, and whenever deadline - now is below the  *)
(* floor it is the smaller of the floor and REQ_TIMEOUT, hence at least    *)
(* the floor exactly when REQ_TIMEOUT is at least the floor.               *)
C9_FloorUpToReqTimeout ==
    call.st \in {"sent", "returned"} =>
        /\ call.timeout[2] =
              (LET m == IF call.floor >= CallLeft THEN call.floor ELSE CallLeft
               IN  IF m <= cfg.REQ_TIMEOUT THEN m ELSE cfg.REQ_TIMEOUT)
        /\ call.timeout[2] > 0
        /\ (CallLeft < call.floor =>
              /\ (cfg.REQ_TIMEOUT >= call.floor => call.timeout[2] = call.floor)
              /\ (cfg.REQ_TIMEOUT < call.floor => call.timeout[2] = cfg.REQ_TIMEOUT))

(* a deadline already passed, the floor dominating *)
C9_Witness ==
    /\ call.st = "sent" /\ call.deadline < call.t0
    /\ call.floor = 2 /\ cfg.REQ_TIMEOUT = 3 /\ call.timeout[2] = 2

(* C10: one_call returns one tuple of 3 fields (4 with upstream capture);  *)
(* after a transport error, a timeout or a non-success status its success  *)
(* flag is false and its label is the requested one; after a successful    *)
(* response the flag is true and the label is the one in the body, or the  *)
(* requested one when the body is unparsable or has no job label.          *)
C10_SampleOfOutcome ==
    call.st = "returned" =>
        /\ Len(call.ret) = 3 + cfg.CAPTURE_UPSTREAM
        /\ call.ret[2] >= 0
        /\ (call.resp.kind # "ok" =>
              call.ret[3] = FALSE /\ call.ret[1] = call.job)
        /\ (call.resp.kind = "ok" =>
              /\ call.ret[3] = TRUE
              /\ (call.resp.body.parse = "dict" /\ call.resp.body.job # None
                    => call.ret[1] = call.resp.body.job)
              /\ (call.resp.body.parse # "dict" \/ call.resp.body.job = None
                    => call.ret[1] = call.job))

C10_Witness ==
    /\ call.st = "returned" /\ call.job = "A"
    /\ call.resp.kind = "ok" /\ call.resp.body = [ parse |-> "dict", job |-> "C" ]
    /\ call.ret[1] = "C" /\ call.ret[3] = TRUE

----------------------------------------------------------------------------
(* app/server.py: the backend behind the proxy, and a request of one_call  *)
(* that it answers.                                                        *)

(* JOB_ITERS with JOB_FACTOR = 1, its first three labels *)
JOB_ITERS == ("A" :> 130000000) @@ ("B" :> 40000000) @@ ("C" :> 20000000)

(* str.upper() on the labels a request may carry *)
Upper(s) ==
    CASE s = "a" -> "A"
      [] s = "b" -> "B"
      [] s = "c" -> "C"
      [] s = "z" -> "Z"
      [] OTHER -> s

JobParams == {"a", "A", "b", "B", "c", "z"}

(* an unhandled exception in the view: HTTP 500 *)
ServerError == [ status |-> 500, json |-> [ ok |-> FALSE, job |-> None, iters |-> 0 ] ]

(* calculate() without .upper() *)
CalculateNoUpper(param) ==
    LET job == IF param = None THEN "A" ELSE param
    IN  IF job \in DOMAIN JOB_ITERS
        THEN [ status |-> 200,
               json |-> [ ok |-> TRUE, job |-> job, iters |-> JOB_ITERS[job] ] ]
        ELSE ServerError

(* calculate(): param is the job argument of the query, None when absent;  *)
(* do_work(None) raises for a label JOB_ITERS does not hold.               *)
Calculate(param) ==
    LET job == Upper(IF param = None THEN "A" ELSE param)
    IN  IF job \in DOMAIN JOB_ITERS
        THEN [ status |-> 200,
               json |-> [ ok |-> TRUE, job |-> job, iters |-> JOB_ITERS[job] ] ]
        ELSE ServerError

(* what s.get and raise_for_status make of the backend's answer, or of its *)
(* absence                                                                 *)
Delivered(served) ==
    { [ kind |-> k, body |-> NoBody, upstream |-> None ] :
        k \in {"transport", "timeout"} }
    \cup IF served.status = 200
         THEN { [ kind |-> "ok", body |-> [ parse |-> "dict", job |-> served.json.job ],
                  upstream |-> u ] : u \in Upstreams }
         ELSE { [ kind |-> "status", body |-> NoBody, upstream |-> None ] }

InitServed ==
    /\ cfg \in { [DefaultCfg EXCEPT !.CAPTURE_UPSTREAM = c] : c \in {0, 1} }
    /\ now = 0 /\ pick_i = 0 /\ picks = <<>> /\ reqs = <<>>
    /\ pc = "call" /\ run = IdleRun /\ batch = IdleBatch
    /\ pctIn = IdlePct /\ pctOut = <<>> /\ main = IdleMain
    /\ call \in [ st : {"new"}, job : JobParams, deadline : 1..MaxCallTime,
                  floor : {DEFAULT_FLOOR} ]

(* the request reaches the backend, which computes its answer *)
Serve ==
    /\ pc = "call" /\ call.st = "sent"
    /\ call' = [ st |-> "served", job |-> call.job, deadline |-> call.deadline,
                 floor |-> call.floor, t0 |-> call.t0, timeout |-> call.timeout,
                 served |-> Calculate(call.job) ]
    /\ UNCHANGED <<cfg, now, pick_i, picks, reqs, pc, run, batch, pctIn, pctOut, main>>

(* lines 96-112 on the backend's answer *)
ServedReturn ==
    /\ pc = "call" /\ call.st = "served"
    /\ \E resp \in Delivered(call.served) :
          call' = [ st |-> "returned", job |-> call.job, deadline |-> call.deadline,
                    floor |-> call.floor, t0 |-> call.t0, timeout |-> call.timeout,
                    served |-> call.served,
                    resp |-> resp,
                    ret |-> Sample(call.job, resp, now - call.t0,
                                   cfg.CAPTURE_UPSTREAM) ]
    /\ UNCHANGED <<cfg, now, pick_i, picks, reqs, pc, run, batch, pctIn, pctOut, main>>

NextServed == CallTick \/ CallBegin \/ Serve \/ ServedReturn
SpecServed == InitServed /\ [][NextServed]_vars

(* C11: a request whose job parameter is a label of JOB_ITERS in upper or  *)
(* lower case is answered with status 200, ok = true and job = the label   *)
(* in upper case; one_call, given that answer, returns that upper-case     *)
(* label with success = TRUE.                                              *)
C11_UpperCaseEcho ==
    pc = "call" /\ call.st \in {"served", "returned"}
       /\ Upper(call.job) \in DOMAIN JOB_ITERS =>
        /\ call.served.status = 200
        /\ call.served.json.ok
        /\ call.served.json.job = Upper(call.job)
        /\ call.served.json.iters = JOB_ITERS[Upper(call.job)]
        /\ (call.st = "returned" /\ call.resp.kind = "ok" =>
              /\ call.ret[1] = call.served.json.job
              /\ call.ret[3] = TRUE)

(* job=b is answered and recorded as B *)
C11_Witness ==
    /\ pc = "call" /\ call.st = "returned" /\ call.job = "b"
    /\ call.served.json.job = "B" /\ call.resp.kind = "ok"
    /\ call.ret[1] = "B" /\ call.ret[3] = TRUE

----------------------------------------------------------------------------
(* The worker pool: futures and the one_call each of them runs.  A future  *)
(* whose result the coordinating thread has taken is garbage.              *)

(* every request submitted with the first label, as warmup does *)
NewFutureFirstJob(job, deadline) ==
    [ job |-> cfg.JOBS[1], deadline |-> deadline, st |-> "pending",
      t0 |-> -1, fin |-> -1, timeout |-> <<>>, ret |-> <<>> ]

NewFuture(job, deadline) ==
    [ job |-> job, deadline |-> deadline, st |-> "pending",
      t0 |-> -1, fin |-> -1, timeout |-> <<>>, ret |-> <<>> ]

Gone == [ job |-> None, deadline |-> -1, st |-> "gone",
          t0 |-> -1, fin |-> -1, timeout |-> <<>>, ret |-> <<>> ]

Pending == { f \in 1..Len(reqs) : reqs[f].st = "pending" }
Running == { f \in 1..Len(reqs) : reqs[f].st = "running" }
Completed == { f \in 1..Len(reqs) : reqs[f].st = "done" }

(* The backend answers a request as app/server.py does unless the          *)
(* transport fails or the body is mangled on the way; the proxy in front   *)
(* of it names the upstream in every response it relays.                   *)
RunResponses(job) ==
    { [ kind |-> k, body |-> NoBody, upstream |-> None ] :
        k \in {"transport", "timeout", "status"} }
    \cup { [ kind |-> "ok", body |-> b, upstream |-> "u1" ] :
             b \in { NoBody, [ parse |-> "dict", job |-> job ] } }

(* A worker thread takes the oldest queued work item and enters one_call   *)
(* (lines 92-95). *)
WorkerStart(f, max_workers) ==
    /\ f \in Pending /\ \A g \in Pending : f <= g
    /\ Cardinality(Running) < max_workers
    /\ reqs' = [ reqs EXCEPT ![f].st = "running", ![f].t0 = now,
                   ![f].timeout = << DEFAULT_CONNECT_TIMEOUT,
                                     ReadTimeout(DEFAULT_FLOOR, reqs[f].deadline, now,
                                                 cfg.REQ_TIMEOUT) >> ]

(* one_call returns (lines 96-112) and the future completes. *)
WorkerFinish(f) ==
    /\ f \in Running
    /\ \E resp \in RunResponses(reqs[f].job) :
          reqs' = [ reqs EXCEPT ![f].st = "done", ![f].fin = now,
                      ![f].ret = Sample(reqs[f].job, resp, now - reqs[f].t0,
                                        cfg.CAPTURE_UPSTREAM) ]

----------------------------------------------------------------------------
(* run_case: the steady-stream runner *)

MaxReq == 3     \* submissions of one run that may complete inside the window

Horizon == cfg.DURATION + cfg.inter_arrival + 1   \* the clock is followed this far

(* <<CONCURRENCY, DURATION, inter_arrival, CAPTURE_UPSTREAM>> *)
RunKnobs == { <<1, 1, 0, 0>>, <<2, 1, 0, 1>>, <<2, 1, 1, 0>>, <<1, 2, 1, 1>>,
              <<2, 2, 0, 0>>, <<2, 2, 1, 0>> }

RunCfgOf(k) ==
    [ DefaultCfg EXCEPT !.CONCURRENCY = k[1], !.DURATION = k[2],
                       !.inter_arrival = k[3], !.CAPTURE_UPSTREAM = k[4],
                       !.REQ_TIMEOUT = 2 ]

RunCfgs == { RunCfgOf(k) : k \in RunKnobs }

(* the runs whose termination is checked *)
RunKnobsFair == { <<1, 1, 0, 0>>, <<2, 1, 0, 1>>, <<2, 1, 1, 0>>, <<1, 2, 1, 1>> }

NotRun == <<cfg, batch, pctIn, pctOut, call, main>>

InitRunOf(cfgs) ==
    /\ cfg \in cfgs
    /\ now = 0 /\ pick_i = 0 /\ picks = <<>> /\ reqs = <<>>
    /\ pc = "rc_begin" /\ run = IdleRun /\ batch = IdleBatch /\ call = IdleCall
    /\ pctIn = IdlePct /\ pctOut = <<>> /\ main = IdleMain

InitRun == InitRunOf(RunCfgs)

InitRunFair == InitRunOf({ RunCfgOf(k) : k \in RunKnobsFair })

RunPcs == { "rc_launch", "rc_seed", "rc_while", "rc_wait", "rc_record",
            "rc_refill", "rc_pace", "rc_sleep", "rc_relaunch", "rc_submit",
            "rc_dwait", "rc_drecord", "rc_summary", "rc_done" }

(* The clock.  Its origin is the first read of perf_counter() in run_case. *)
Tick ==
    /\ pc \in RunPcs \ {"rc_done"}
    /\ now < Horizon
    /\ now' = now + 1
    /\ UNCHANGED <<cfg, pick_i, picks, reqs, pc, run, batch, pctIn, pctOut, call, main>>

RunWorkerStart ==
    /\ pc \in RunPcs
    /\ \E f \in Pending : WorkerStart(f, cfg.CONCURRENCY)
    /\ UNCHANGED <<cfg, now, pick_i, picks, pc, run, batch, pctIn, pctOut, call, main>>

(* Requests that complete inside the window are refilled; at most MaxReq   *)
(* submissions are followed, later completions fall after the window end.  *)
(* a worker that appends its own latency to results when it finishes *)
RunWorkerFinishRecords ==
    /\ pc \in RunPcs
    /\ (now < run.t_end => Len(reqs) + Cardinality(Completed) < MaxReq)
    /\ \E f \in Running :
          /\ WorkerFinish(f)
          /\ run' = [ run EXCEPT !.results = Append(@, now - reqs[f].t0) ]
    /\ UNCHANGED <<cfg, now, pick_i, picks, pc, batch, pctIn, pctOut, call, main>>

RunWorkerFinish ==
    /\ pc \in RunPcs
    /\ (now < run.t_end => Len(reqs) + Cardinality(Completed) < MaxReq)
    /\ \E f \in Running : WorkerFinish(f)
    /\ UNCHANGED <<cfg, now, pick_i, picks, pc, run, batch, pctIn, pctOut, call, main>>

NoHarvest == [ ok |-> FALSE, fin |-> -1, counted |-> FALSE ]

(* lines 142-148 *)
RunBegin ==
    /\ pc = "rc_begin"
    /\ run' = [ phase |-> "SEEDING",
                results |-> <<>>, per_job |-> <<>>,
                per_upstream |-> [ is_none |-> cfg.CAPTURE_UPSTREAM = 0, count |-> <<>> ],
                fails |-> 0,
                t_end |-> now + cfg.DURATION,
                inter_arrival |-> 0, next_launch |-> 0,
                in_flight |-> {}, seeded |-> 0, done |-> {},
                summary |-> <<>>,
                \* history, not program state:
                recorded |-> <<>>,   \* the future behind each entry of results
                last |-> NoHarvest,  \* the future harvested last
                late_submits |-> 0,  \* submissions made at or after t_end
                discarded |-> 0,     \* successes harvested and left out
                last_refill |-> -1,  \* when the last replacement was submitted
                short_gap |-> FALSE ] \* two replacements closer than inter_arrival
    /\ pc' = "rc_launch"
    /\ UNCHANGED <<now, pick_i, picks, reqs>> /\ UNCHANGED NotRun

(* lines 149-153 *)
RunLaunchInit ==
    /\ pc = "rc_launch"
    /\ run' = [ run EXCEPT !.inter_arrival = cfg.inter_arrival, !.next_launch = now ]
    /\ pc' = "rc_seed"
    /\ UNCHANGED <<now, pick_i, picks, reqs>> /\ UNCHANGED NotRun

(* pick_job() and pool.submit(one_call, url, job, t_end); the new future   *)
(* joins in_flight. *)
PickAndSubmit(r) ==
    \E p \in PickResults(cfg, pick_i) :
        /\ pick_i' = p.i
        /\ picks' = Append(picks, p.job)
        /\ reqs' = Append(reqs, NewFuture(p.job, r.t_end))
        /\ run' = [ r EXCEPT !.in_flight = @ \cup {Len(reqs) + 1},
                             !.late_submits = IF now >= r.t_end THEN @ + 1 ELSE @ ]

(* lines 156-161, one iteration; after the last one the main loop begins *)
Seed ==
    /\ pc = "rc_seed"
    /\ PickAndSubmit([ run EXCEPT !.seeded = @ + 1,
                         !.phase = IF run.seeded + 1 = cfg.CONCURRENCY
                                   THEN "ADMITTING" ELSE @ ])
    /\ pc' = IF run.seeded + 1 = cfg.CONCURRENCY THEN "rc_while" ELSE "rc_seed"
    /\ UNCHANGED now /\ UNCHANGED NotRun

(* line 194 *)
(* the drain loop left out: the summary follows the admitting loop at once *)
DrainPcNoDrain(in_flight) == "rc_summary"

DrainPc(in_flight) == IF in_flight # {} THEN "rc_dwait" ELSE "rc_summary"

(* the loop test without its deadline: while True *)
WhileTestNoDeadline ==
    /\ pc = "rc_while"
    /\ pc' = "rc_wait"
    /\ UNCHANGED <<now, pick_i, picks, reqs, run>> /\ UNCHANGED NotRun

(* line 164 *)
WhileTest ==
    /\ pc = "rc_while"
    /\ IF now < run.t_end
       THEN pc' = "rc_wait" /\ run' = run
       ELSE pc' = DrainPc(run.in_flight) /\ run' = [ run EXCEPT !.phase = "DRAINING" ]
    /\ UNCHANGED <<now, pick_i, picks, reqs>> /\ UNCHANGED NotRun

RemainingSetKeepsDone(futures_set, done) == futures_set

(* line 120: futures_set - done *)
RemainingSet(futures_set, done) == futures_set \ done

(* _wait_one, lines 114-120: blocks until a future of the set has          *)
(* completed and returns it alone, with the rest of the set. *)
WaitOne(next_pc) ==
    /\ \E f \in run.in_flight :
          /\ reqs[f].st = "done"
          /\ run' = [ run EXCEPT !.done = {f},
                                 !.in_flight = RemainingSet(run.in_flight, {f}) ]
    /\ pc' = next_pc
    /\ UNCHANGED <<now, pick_i, picks, reqs>> /\ UNCHANGED NotRun

(* line 165 *)
Wait ==
    /\ pc = "rc_wait"
    /\ WaitOne("rc_record")

Bump(counter, key) ==
    IF key \in DOMAIN counter
    THEN [ counter EXCEPT ![key] = @ + 1 ]
    ELSE counter @@ (key :> 1)

AppendTo(lists, key, v) ==
    IF key \in DOMAIN lists
    THEN [ lists EXCEPT ![key] = Append(@, v) ]
    ELSE lists @@ (key :> <<v>>)

CountsIgnoringTime(ok, t, t_end) == ok

(* the test of lines 173 and 203: ok and time.perf_counter() <= t_end *)
Counts(ok, t, t_end) == ok /\ t <= t_end

(* Record without its elif branch: a failure leaves no trace *)
RecordNoFailCount(f) ==
    LET ret == reqs[f].ret
        seen(counted) == [ ok |-> ret[3], fin |-> reqs[f].fin, counted |-> counted ]
    IN  IF Counts(ret[3], now, run.t_end)
        THEN [ run EXCEPT
                 !.results = Append(@, ret[2]),
                 !.per_job = AppendTo(@, ret[1], ret[2]),
                 !.recorded = Append(@, [ ok |-> ret[3], lat |-> ret[2],
                                          fin |-> reqs[f].fin ]),
                 !.last = seen(TRUE),
                 !.done = {} ]
        ELSE IF ~ret[3] THEN [ run EXCEPT !.last = seen(FALSE), !.done = {} ]
        ELSE [ run EXCEPT !.last = seen(FALSE), !.done = {}, !.discarded = @ + 1 ]

(* lines 166-178 and 196-208: unpack f.result() and record it *)
Record(f) ==
    LET ret == reqs[f].ret
        job == ret[1]
        lat == ret[2]
        ok == ret[3]
        upstream == IF cfg.CAPTURE_UPSTREAM = 1 THEN ret[4] ELSE None
        seen(counted) == [ ok |-> ok, fin |-> reqs[f].fin, counted |-> counted ]
    IN  IF Counts(ok, now, run.t_end)
        THEN [ run EXCEPT
                 !.results = Append(@, lat),
                 !.per_job = AppendTo(@, job, lat),
                 !.per_upstream.count =
                     IF ~run.per_upstream.is_none /\ upstream # None
                     THEN Bump(@, <<job, upstream>>) ELSE @,
                 !.recorded = Append(@, [ ok |-> ok, lat |-> lat, fin |-> reqs[f].fin ]),
                 !.last = seen(TRUE),
                 !.done = {} ]
        ELSE IF ~ok THEN [ run EXCEPT !.fails = @ + 1, !.last = seen(TRUE), !.done = {} ]
        ELSE [ run EXCEPT !.last = seen(FALSE), !.done = {}, !.discarded = @ + 1 ]

(* lines 166-178 *)
Harvest ==
    /\ pc = "rc_record"
    /\ \E f \in run.done :
          /\ run' = Record(f)
          /\ reqs' = [ reqs EXCEPT ![f] = Gone ]
    /\ pc' = "rc_refill"
    /\ UNCHANGED <<now, pick_i, picks>> /\ UNCHANGED NotRun

(* lines 181-182 *)
RefillTest ==
    /\ pc = "rc_refill"
    /\ pc' = IF now < run.t_end
             THEN IF run.inter_arrival > 0 THEN "rc_pace" ELSE "rc_submit"
             ELSE "rc_while"
    /\ UNCHANGED <<now, pick_i, picks, reqs, run>> /\ UNCHANGED NotRun

(* lines 183-185 *)
PaceTest ==
    /\ pc = "rc_pace"
    /\ pc' = IF now < run.next_launch THEN "rc_sleep" ELSE "rc_relaunch"
    /\ UNCHANGED <<now, pick_i, picks, reqs, run>> /\ UNCHANGED NotRun

(* time.sleep(next_launch - now) returns no earlier than asked *)
Wake ==
    /\ pc = "rc_sleep" /\ now >= run.next_launch
    /\ pc' = "rc_relaunch"
    /\ UNCHANGED <<now, pick_i, picks, reqs, run>> /\ UNCHANGED NotRun

(* line 186 *)
Relaunch ==
    /\ pc = "rc_relaunch"
    /\ run' = [ run EXCEPT !.next_launch = Max(@ + run.inter_arrival, now) ]
    /\ pc' = "rc_submit"
    /\ UNCHANGED <<now, pick_i, picks, reqs>> /\ UNCHANGED NotRun

(* lines 187-191 *)
Refill ==
    /\ pc = "rc_submit"
    /\ PickAndSubmit([ run EXCEPT
           !.last_refill = now,
           !.short_gap = @ \/ ( /\ run.last_refill >= 0
                                /\ now - run.last_refill < run.inter_arrival ) ])
    /\ pc' = "rc_while"
    /\ UNCHANGED now /\ UNCHANGED NotRun

(* line 195 *)
DrainWait ==
    /\ pc = "rc_dwait"
    /\ WaitOne("rc_drecord")

(* lines 196-208, then the test of line 194 *)
DrainHarvest ==
    /\ pc = "rc_drecord"
    /\ \E f \in run.done :
          /\ run' = Record(f)
          /\ reqs' = [ reqs EXCEPT ![f] = Gone ]
    /\ pc' = DrainPc(run.in_flight)
    /\ UNCHANGED <<now, pick_i, picks>> /\ UNCHANGED NotRun

LessEq(a, b) == a <= b

(* _print_stream_summary, lines 122-136 *)
StreamSummary(results, per_job, fails) ==
    IF Len(results) = 0 THEN [ kind |-> "no results", fails |-> fails ]
    ELSE LET sorted == SortSeq(results, LessEq)
         IN  [ kind |-> "report",
               rps |-> << Len(sorted), cfg.DURATION >>,
               p50 |-> pct(sorted, 50, 100),
               p95 |-> pct(sorted, 95, 100),
               p99 |-> pct(sorted, 99, 100),
               n |-> Len(sorted), fails |-> fails,
               jobs |-> [ j \in DOMAIN per_job |->
                          LET arr == SortSeq(per_job[j], LessEq)
                          IN  [ n |-> Len(arr), p50 |-> pct(arr, 50, 100),
                                p95 |-> pct(arr, 95, 100) ] ] ]

(* lines 210-215; leaving the with block joins the pool's workers *)
Summary ==
    /\ pc = "rc_summary"
    /\ Pending \cup Running = {}
    /\ run' = [ run EXCEPT !.phase = "DONE",
                  !.summary = << StreamSummary(run.results, run.per_job, run.fails) >> ]
    /\ pc' = "rc_done"
    /\ UNCHANGED <<now, pick_i, picks, reqs>> /\ UNCHANGED NotRun

NextRun ==
    \/ Tick \/ RunWorkerStart \/ RunWorkerFinish
    \/ RunBegin \/ RunLaunchInit \/ Seed \/ WhileTest \/ Wait \/ Harvest
    \/ RefillTest \/ PaceTest \/ Wake \/ Relaunch \/ Refill
    \/ DrainWait \/ DrainHarvest \/ Summary

SpecRun == InitRun /\ [][NextRun]_vars

(* The coordinating thread runs whenever it is not blocked, every worker   *)
(* thread runs and every request returns, and the clock advances.          *)
CoordinatorStep ==
    \/ RunBegin \/ RunLaunchInit \/ Seed \/ WhileTest \/ Wait \/ Harvest
    \/ RefillTest \/ PaceTest \/ Wake \/ Relaunch \/ Refill
    \/ DrainWait \/ DrainHarvest \/ Summary

RunFairness ==
    /\ WF_vars(CoordinatorStep)
    /\ WF_vars(Tick)
    /\ WF_vars(RunWorkerStart)
    /\ WF_vars(RunWorkerFinish)

SpecRunFair == InitRunFair /\ [][NextRun]_vars /\ RunFairness

InRun == pc \in RunPcs

(* the futures submitted and not yet harvested *)
Outstanding == { f \in 1..Len(reqs) : reqs[f].st # "gone" }

(* C1: in every state of a steady-state run the futures submitted and not  *)
(* yet harvested number at most CONCURRENCY, and so does in_flight.        *)
C1_WindowBound ==
    InRun =>
        /\ Cardinality(run.in_flight) <= cfg.CONCURRENCY
        /\ Cardinality(Outstanding) <= cfg.CONCURRENCY
        /\ Outstanding = run.in_flight \cup run.done

(* the window is full again after a refill *)
C1_Witness ==
    /\ InRun /\ cfg.CONCURRENCY = 2 /\ Len(reqs) = 3
    /\ Cardinality(run.in_flight) = 2 /\ Cardinality(Outstanding) = 2

(* C2: no request of a steady-state run is submitted at or after t_end.    *)
C2_NoSubmitAfterEnd == InRun => run.late_submits = 0

RECURSIVE TotalLen(_, _)
TotalLen(lists, keys) ==
    IF keys = {} THEN 0
    ELSE LET k == CHOOSE x \in keys : TRUE
         IN  Len(lists[k]) + TotalLen(lists, keys \ {k})

----------------------------------------------------------------------------
(* run_batched_case: the batched-burst runner *)

(* <<batches, batch_requests, concurrency, CAPTURE_UPSTREAM>> *)
BatchKnobs == { <<1, 1, 1, 0>>, <<2, 2, 1, 0>>, <<2, 2, 2, 0>>, <<1, 3, 2, 0>>,
                <<1, 1, 1, 1>>, <<2, 2, 2, 1>> }

BatchCfgs ==
    { [ DefaultCfg EXCEPT !.batches = k[1], !.batch_requests = k[2],
                         !.CONCURRENCY = k[3], !.CAPTURE_UPSTREAM = k[4],
                         !.REQ_TIMEOUT = 2 ] : k \in BatchKnobs }

BatchHorizon == cfg.batches + 1      \* the clock is followed this far

BatchPcs == { "bt_t0", "bt_deadline", "bt_submit", "bt_collect", "bt_elapsed",
              "bt_summary", "bt_done", "error" }

NotBatch == <<cfg, run, pctIn, pctOut, call, main>>

InitBatch ==
    /\ cfg \in BatchCfgs
    /\ now = 0 /\ pick_i = 0 /\ picks = <<>> /\ reqs = <<>>
    /\ pc = "bt_begin" /\ run = IdleRun /\ batch = IdleBatch /\ call = IdleCall
    /\ pctIn = IdlePct /\ pctOut = <<>> /\ main = IdleMain

BatchTick ==
    /\ pc \in BatchPcs \ {"bt_done", "error"}
    /\ now < BatchHorizon
    /\ now' = now + 1
    /\ UNCHANGED <<cfg, pick_i, picks, reqs, pc, run, batch, pctIn, pctOut, call, main>>

BatchWorkerStart ==
    /\ pc \in BatchPcs
    /\ \E f \in Pending : WorkerStart(f, batch.concurrency)
    /\ UNCHANGED <<cfg, now, pick_i, picks, pc, run, batch, pctIn, pctOut, call, main>>

BatchWorkerFinish ==
    /\ pc \in BatchPcs
    /\ \E f \in Running : WorkerFinish(f)
    /\ UNCHANGED <<cfg, now, pick_i, picks, pc, run, batch, pctIn, pctOut, call, main>>

(* lines 220-225; the caller passes BATCH_COUNT, BATCH_REQUESTS, CONCURRENCY *)
BatchBegin ==
    /\ pc = "bt_begin"
    /\ cfg.batches > 0 /\ cfg.batch_requests >= 1 /\ cfg.CONCURRENCY >= 1
    /\ batch' = [ phase |-> "running",
                  batches |-> cfg.batches, batch_requests |-> cfg.batch_requests,
                  concurrency |-> cfg.CONCURRENCY,
                  batch_times |-> <<>>, per_batch_ok |-> <<>>, per_batch_fail |-> <<>>,
                  total_ok |-> 0, total_fail |-> 0,
                  iter |-> 1, t0 |-> 0, ok |-> 0, fail |-> 0, deadline |-> 0,
                  futs |-> <<>>, yielded |-> {},
                  summary |-> <<>>,
                  \* history, not program state:
                  at_record |-> <<>> ]  \* futures of the batch finished when it was recorded
    /\ pc' = "bt_t0"
    /\ UNCHANGED <<now, pick_i, picks, reqs>> /\ UNCHANGED NotBatch

(* lines 228-229 *)
BatchT0 ==
    /\ pc = "bt_t0"
    /\ batch' = [ batch EXCEPT !.t0 = now, !.ok = 0, !.fail = 0,
                               !.futs = <<>>, !.yielded = {} ]
    /\ pc' = "bt_deadline"
    /\ UNCHANGED <<now, pick_i, picks, reqs>> /\ UNCHANGED NotBatch

(* line 230 *)
BatchDeadline ==
    /\ pc = "bt_deadline"
    /\ batch' = [ batch EXCEPT !.deadline = now + cfg.REQ_TIMEOUT ]
    /\ pc' = "bt_submit"
    /\ UNCHANGED <<now, pick_i, picks, reqs>> /\ UNCHANGED NotBatch

(* lines 233-234, one element of the list *)
BatchSubmit ==
    /\ pc = "bt_submit"
    /\ \E p \in PickResults(cfg, pick_i) :
          /\ pick_i' = p.i
          /\ picks' = Append(picks, p.job)
          /\ reqs' = Append(reqs, NewFuture(p.job, batch.deadline))
    /\ batch' = [ batch EXCEPT !.futs = Append(@, Len(reqs) + 1) ]
    /\ pc' = IF Len(batch.futs) + 1 = batch.batch_requests
             THEN "bt_collect" ELSE "bt_submit"
    /\ UNCHANGED now /\ UNCHANGED NotBatch

Range(q) == { q[k] : k \in 1..Len(q) }

(* line 236: _, _, success = f.result() takes a tuple of exactly three *)
Unpacks(ret) == Len(ret) = 3

(* lines 235-240, one future yielded by as_completed *)
BatchCollect ==
    /\ pc = "bt_collect"
    /\ \E f \in Range(batch.futs) \ batch.yielded :
          /\ reqs[f].st = "done"
          /\ IF Unpacks(reqs[f].ret)
             THEN /\ batch' = [ batch EXCEPT
                                  !.ok = IF reqs[f].ret[3] THEN @ + 1 ELSE @,
                                  !.fail = IF reqs[f].ret[3] THEN @ ELSE @ + 1,
                                  !.yielded = @ \cup {f} ]
                  /\ pc' = IF batch.yielded \cup {f} = Range(batch.futs)
                           THEN "bt_elapsed" ELSE "bt_collect"
             ELSE /\ batch' = [ batch EXCEPT !.phase = "ValueError" ]
                  /\ pc' = "error"
    /\ UNCHANGED <<now, pick_i, picks, reqs>> /\ UNCHANGED NotBatch

(* lines 242-246, after the pool has joined its workers *)
BatchElapsed ==
    /\ pc = "bt_elapsed"
    /\ \A f \in Range(batch.futs) : reqs[f].st = "done"
    /\ batch' = [ batch EXCEPT
                    !.batch_times = Append(@, now - batch.t0),
                    !.per_batch_ok = Append(@, batch.ok),
                    !.per_batch_fail = Append(@, batch.fail),
                    !.total_ok = @ + batch.ok,
                    !.total_fail = @ + batch.fail,
                    !.iter = @ + 1,
                    !.at_record = Append(@, Cardinality({ f \in Range(batch.futs) :
                                                           reqs[f].st = "done" })) ]
    /\ reqs' = [ f \in 1..Len(reqs) |-> Gone ]
    /\ pc' = IF batch.iter = batch.batches THEN "bt_summary" ELSE "bt_t0"
    /\ UNCHANGED <<now, pick_i, picks>> /\ UNCHANGED NotBatch

RECURSIVE SumSeq(_, _)
SumSeq(q, n) == IF n = 0 THEN 0 ELSE SumSeq(q, n - 1) + q[n]

(* lines 248-260 *)
(* the successes taken for the requests of the run *)
TotalRequestsOk(batches, batch_requests) == batch.total_ok

(* line 253 *)
TotalRequests(batches, batch_requests) == batches * batch_requests

(* lines 248-260 *)
BatchSummary ==
    /\ pc = "bt_summary"
    /\ LET sorted_bt == SortSeq(batch.batch_times, LessEq)
           total_sum == SumSeq(batch.batch_times, Len(batch.batch_times))
           total_requests == TotalRequests(batch.batches, batch.batch_requests)
       IN  batch' = [ batch EXCEPT !.phase = "done", !.summary =
             << [ batches |-> batch.batches, batch_requests |-> batch.batch_requests,
                  sum |-> total_sum,
                  p50 |-> pct(sorted_bt, 50, 100), p95 |-> pct(sorted_bt, 95, 100),
                  worst |-> IF Len(sorted_bt) > 0 THEN sorted_bt[Len(sorted_bt)] ELSE 0,
                  reqs |-> total_requests,
                  ok |-> batch.total_ok, fail |-> batch.total_fail,
                  \* total_requests / total_sum, as numerator and denominator
                  effRPS |-> IF total_sum > 0 THEN << total_requests, total_sum >>
                             ELSE << 0, 1 >>,
                  lines |-> [ idx \in 1..Min(Len(batch.batch_times),
                                             Min(Len(batch.per_batch_ok),
                                                 Len(batch.per_batch_fail))) |->
                              [ K |-> batch.batch_requests,
                                time |-> batch.batch_times[idx],
                                ok |-> batch.per_batch_ok[idx],
                                fail |-> batch.per_batch_fail[idx] ] ] ] >> ]
    /\ pc' = "bt_done"
    /\ UNCHANGED <<now, pick_i, picks, reqs>> /\ UNCHANGED NotBatch

NextBatch ==
    \/ BatchTick \/ BatchWorkerStart \/ BatchWorkerFinish
    \/ BatchBegin \/ BatchT0 \/ BatchDeadline \/ BatchSubmit \/ BatchCollect
    \/ BatchElapsed \/ BatchSummary

SpecBatch == InitBatch /\ [][NextBatch]_vars

(* Either runner, as the main block starts them *)
SpecRunners == (InitRun \/ InitBatch) /\ [][NextRun \/ NextBatch]_vars

(* C4: whatever the outcomes of the requests and the upstream-capture      *)
(* setting, neither runner raises an error, and a steady-state run with no *)
(* successful sample ends in the no-results report.                        *)
C4_NoFatalError ==
    /\ pc # "error"
    /\ (pc = "rc_done" /\ Len(run.results) = 0 =>
          run.summary = << [ kind |-> "no results", fails |-> run.fails ] >>)

(* C5: a steady-state run eventually is DONE: no future left in flight and *)
(* the summary emitted.                                                    *)
C5_ReachesDone ==
    <>(pc = "rc_done" /\ run.in_flight = {} /\ Len(run.summary) = 1)

(* a paced run that refilled its window and ended *)
C5_Witness ==
    /\ pc = "rc_done" /\ run.phase = "DONE" /\ run.in_flight = {}
    /\ Len(run.summary) = 1
    /\ cfg.inter_arrival > 0 /\ Len(reqs) > cfg.CONCURRENCY

(* C6: a batched-burst run that has ended has recorded exactly `batches`   *)
(* batches; every recorded batch has ok + fail = batch_requests and was    *)
(* recorded when all its requests had finished.                            *)
C6_BatchCounts ==
    pc \in BatchPcs =>
        /\ (pc \in {"bt_done", "error"} =>
              /\ Len(batch.batch_times) = batch.batches
              /\ Len(batch.per_batch_ok) = batch.batches
              /\ Len(batch.per_batch_fail) = batch.batches)
        /\ \A b \in 1..Len(batch.batch_times) :
              /\ batch.per_batch_ok[b] + batch.per_batch_fail[b] = batch.batch_requests
              /\ batch.at_record[b] = batch.batch_requests

----------------------------------------------------------------------------
(* The __main__ block: the phases of every target, one after the other.    *)
(* warmup, run_case and run_batched_case are blocking calls; each is one   *)
(* step that enters the call and one that leaves it.                       *)

(* <<START_DELAY, COOLDOWN_SEC, WARMUP_K, RUN_STREAM, RUN_BATCH,           *)
(*   BATCH_COUNT, BATCH_REQUESTS, BATCH_MIN, CAPTURE_UPSTREAM>>, times in   *)
(* ticks; BATCH_MAX is 1                                                   *)
MainKnobs ==
    { <<1, 1,  0, 1, 0, 0, 0, 1, 0>>,    \* the steady stream alone
      <<1, 1,  1, 1, 1, 2, 1, 1, 0>>,    \* every phase, batches of fixed size
      <<1, 1,  1, 1, 1, 2, 0, 1, 0>>,    \* every phase, batches of drawn size
      <<0, 1,  1, 1, 1, 2, 0, 0, 0>>,    \* a drawn size may be 0
      <<1, 0,  0, 1, 1, 1, 1, 1, 1>>,    \* batches with CAPTURE_UPSTREAM
      <<0, 0,  1, 1, 1, 1, 1, 1, 0>>,    \* no delay at all
      <<0, 1,  0, 0, 0, 0, 0, 1, 0>>,    \* no phase enabled
      <<1, 1, -1, 0, 1, 1, 1, 1, 0>>,    \* WARMUP_K below 0
      <<1, 0,  1, 0, 1, 0, 1, 1, 0>>,    \* RUN_BATCH with BATCH_COUNT 0
      <<2, 1,  1, 1, 0, 0, 0, 1, 0>>,
      <<0, 2,  0, 1, 0, 2, 1, 1, 0>>,
      <<1, 1,  1, 1, 0, 0, 0, 1, 1>> }

MainCfgOf(k) ==
    [ TARGETS |-> <<"LC", "RR">>,
      START_DELAY |-> k[1], COOLDOWN_SEC |-> k[2],
      WARMUP_K |-> k[3], RUN_STREAM |-> k[4], RUN_BATCH |-> k[5],
      BATCH_COUNT |-> k[6], BATCH_REQUESTS |-> k[7],
      BATCH_MIN |-> k[8], BATCH_MAX |-> 1,
      CAPTURE_UPSTREAM |-> k[9] ]

MainCfgs == { MainCfgOf(k) : k \in MainKnobs }

(* the sleeps of one execution, and one tick more *)
MainHorizon ==
    (1 + 3 * Len(cfg.TARGETS)) * cfg.START_DELAY
        + (Len(cfg.TARGETS) - 1) * cfg.COOLDOWN_SEC + 1

MainPcs == { "m_delay", "m_delay_wait", "m_warmup", "m_warmup_run",
             "m_stream", "m_stream_run", "m_sleep3", "m_sleep3_wait",
             "m_batch", "m_batch_call", "m_batch_run",
             "m_cool", "m_cool_wait", "m_done", "m_error" }

NotMain == <<pick_i, picks, reqs, run, batch, pctIn, pctOut, call>>

InitMain ==
    /\ cfg \in MainCfgs
    /\ now = 0 /\ pick_i = 0 /\ picks = <<>> /\ reqs = <<>>
    /\ pc = "m_delay" /\ run = IdleRun /\ batch = IdleBatch /\ call = IdleCall
    /\ pctIn = IdlePct /\ pctOut = <<>>
    /\ main = [ i |-> 1, wake |-> 0, left |-> 0,
                \* history: the calls entered and left, in order
                log |-> <<>> ]

MainTick ==
    /\ pc \in MainPcs \ {"m_done", "m_error"} /\ now < MainHorizon
    /\ now' = now + 1
    /\ UNCHANGED <<cfg, pc, main>> /\ UNCHANGED NotMain

(* an entry of the log: a call of a phase, or of time.sleep with the clock *)
(* value read beside it                                                    *)
Event(t, ev, what) == [ t |-> t, ev |-> ev, what |-> what ]
SleepEvent(t, ev, what) == [ t |-> t, ev |-> ev, what |-> what, at |-> now ]

(* time.sleep returns at once *)
SleepDoneAtOnce(wake) == TRUE

(* time.sleep(d), entered when the clock read wake - d, returns no earlier *)
(* than asked                                                              *)
SleepDone(wake) == now >= wake

(* lines 286-288 *)
MainStartDelay ==
    /\ pc = "m_delay"
    /\ IF cfg.START_DELAY > 0
       THEN /\ main' = [ main EXCEPT !.wake = now + cfg.START_DELAY,
                           !.log = Append(@, SleepEvent(0, "start_delay", "begin")) ]
            /\ pc' = "m_delay_wait"
       ELSE /\ main' = main
            /\ pc' = "m_warmup"
    /\ UNCHANGED <<cfg, now>> /\ UNCHANGED NotMain

MainStartDelayWake ==
    /\ pc = "m_delay_wait" /\ SleepDone(main.wake)
    /\ main' = [ main EXCEPT !.log = Append(@, SleepEvent(0, "start_delay", "end")) ]
    /\ pc' = "m_warmup"
    /\ UNCHANGED <<cfg, now>> /\ UNCHANGED NotMain

(* lines 290-292 and 266-267: the loop takes target i; warmup returns at   *)
(* once when WARMUP_K <= 0                                                 *)
MainWarmup ==
    /\ pc = "m_warmup"
    /\ IF cfg.WARMUP_K # 0 /\ ~(cfg.WARMUP_K <= 0)
       THEN /\ main' = [ main EXCEPT !.log = Append(@, Event(main.i, "warmup", "begin")) ]
            /\ pc' = "m_warmup_run"
       ELSE /\ main' = main
            /\ pc' = "m_stream"
    /\ UNCHANGED <<cfg, now>> /\ UNCHANGED NotMain

(* lines 268-272: every warmup request has completed and the pool joined *)
MainWarmupEnd ==
    /\ pc = "m_warmup_run"
    /\ main' = [ main EXCEPT !.log = Append(@, Event(main.i, "warmup", "end")) ]
    /\ pc' = "m_stream"
    /\ UNCHANGED <<cfg, now>> /\ UNCHANGED NotMain

(* lines 294-295 *)
MainStream ==
    /\ pc = "m_stream"
    /\ IF cfg.RUN_STREAM # 0
       THEN /\ main' = [ main EXCEPT !.log = Append(@, Event(main.i, "stream", "begin")) ]
            /\ pc' = "m_stream_run"
       ELSE /\ main' = main
            /\ pc' = "m_sleep3"
    /\ UNCHANGED <<cfg, now>> /\ UNCHANGED NotMain

(* run_case returns, its summary printed *)
MainStreamEnd ==
    /\ pc = "m_stream_run"
    /\ main' = [ main EXCEPT !.log = Append(@, Event(main.i, "stream", "end")) ]
    /\ pc' = "m_sleep3"
    /\ UNCHANGED <<cfg, now>> /\ UNCHANGED NotMain

(* line 297 *)
MainSleep3 ==
    /\ pc = "m_sleep3"
    /\ main' = [ main EXCEPT !.wake = now + 3 * cfg.START_DELAY ]
    /\ pc' = "m_sleep3_wait"
    /\ UNCHANGED <<cfg, now>> /\ UNCHANGED NotMain

MainSleep3Wake ==
    /\ pc = "m_sleep3_wait" /\ SleepDone(main.wake)
    /\ pc' = "m_batch"
    /\ UNCHANGED <<cfg, now, main>> /\ UNCHANGED NotMain

(* lines 299-300 and 304: one call with BATCH_COUNT batches, or BATCH_COUNT *)
(* calls with one batch each                                               *)
MainBatch ==
    /\ pc = "m_batch"
    /\ IF cfg.RUN_BATCH # 0 /\ cfg.BATCH_COUNT > 0
       THEN /\ main' = [ main EXCEPT
                           !.left = IF cfg.BATCH_REQUESTS > 0 THEN 1 ELSE cfg.BATCH_COUNT ]
            /\ pc' = "m_batch_call"
       ELSE /\ main' = main
            /\ pc' = "m_cool"
    /\ UNCHANGED <<cfg, now>> /\ UNCHANGED NotMain

(* lines 302 and 305-306, and the assert of line 221 *)
MainBatchCall ==
    /\ pc = "m_batch_call"
    /\ \E K \in IF cfg.BATCH_REQUESTS > 0 THEN {cfg.BATCH_REQUESTS}
                ELSE cfg.BATCH_MIN..cfg.BATCH_MAX :
          IF K >= 1
          THEN /\ main' = [ main EXCEPT !.log = Append(@, Event(main.i, "batch", "begin")) ]
               /\ pc' = "m_batch_run"
          ELSE /\ main' = main
               /\ pc' = "m_error"
    /\ UNCHANGED <<cfg, now>> /\ UNCHANGED NotMain

(* run_batched_case returns, or raises at line 236 when one_call returns   *)
(* four values                                                             *)
MainBatchEnd ==
    /\ pc = "m_batch_run"
    /\ IF cfg.CAPTURE_UPSTREAM = 1
       THEN /\ main' = main
            /\ pc' = "m_error"
       ELSE /\ main' = [ main EXCEPT !.left = @ - 1,
                           !.log = Append(@, Event(main.i, "batch", "end")) ]
            /\ pc' = IF main.left = 1 THEN "m_cool" ELSE "m_batch_call"
    /\ UNCHANGED <<cfg, now>> /\ UNCHANGED NotMain

(* lines 309-311 *)
MainCooldown ==
    /\ pc = "m_cool"
    /\ IF main.i - 1 < Len(cfg.TARGETS) - 1
       THEN /\ main' = [ main EXCEPT !.wake = now + cfg.COOLDOWN_SEC,
                           !.log = Append(@, SleepEvent(main.i, "cooldown", "begin")) ]
            /\ pc' = "m_cool_wait"
       ELSE /\ main' = main
            /\ pc' = "m_done"
    /\ UNCHANGED <<cfg, now>> /\ UNCHANGED NotMain

(* the sleep of line 311 returns and the loop takes the next target *)
MainCooldownWake ==
    /\ pc = "m_cool_wait" /\ SleepDone(main.wake)
    /\ main' = [ main EXCEPT !.i = @ + 1,
                   !.log = Append(@, SleepEvent(main.i, "cooldown", "end")) ]
    /\ pc' = "m_warmup"
    /\ UNCHANGED <<cfg, now>> /\ UNCHANGED NotMain

NextMain ==
    \/ MainTick
    \/ MainStartDelay \/ MainStartDelayWake
    \/ MainWarmup \/ MainWarmupEnd \/ MainStream \/ MainStreamEnd
    \/ MainSleep3 \/ MainSleep3Wake
    \/ MainBatch \/ MainBatchCall \/ MainBatchEnd
    \/ MainCooldown \/ MainCooldownWake

SpecMain == InitMain /\ [][NextMain]_vars

EventRank(ev) ==
    CASE ev = "start_delay" -> 0
      [] ev = "warmup" -> 1
      [] ev = "stream" -> 2
      [] ev = "batch" -> 3
      [] ev = "cooldown" -> 4

PhaseEnabled(ev) ==
    CASE ev = "warmup" -> cfg.WARMUP_K > 0
      [] ev = "stream" -> cfg.RUN_STREAM # 0
      [] ev = "batch" -> cfg.RUN_BATCH # 0 /\ cfg.BATCH_COUNT > 0
      [] OTHER -> TRUE

(* C18: the calls of the __main__ block never overlap and come target by   *)
(* target in list order, within a target in the order warmup, steady       *)
(* stream, batched bursts, enabled phases only; the start delay, when      *)
(* positive, has elapsed before the first phase; a phase of the next       *)
(* target begins only after every call for the current target has          *)
(* returned and its cooldown sleep of COOLDOWN_SEC has elapsed; a finished *)
(* program has run every enabled phase of every target.                    *)
C18_TargetOrder ==
    pc \in MainPcs =>
        LET L == main.log
            Phases == {"warmup", "stream", "batch"}
        IN  /\ \A a \in 1..Len(L) : \A b \in a..Len(L) :
                  /\ L[a].t <= L[b].t
                  /\ (L[a].t = L[b].t => EventRank(L[a].ev) <= EventRank(L[b].ev))
            /\ \A a \in 1..Len(L) :
                  /\ L[a].t \in 0..Len(cfg.TARGETS)
                  /\ PhaseEnabled(L[a].ev)
                  /\ (L[a].what = "begin" /\ a > 1 => L[a - 1].what = "end")
                  /\ (L[a].what = "end" =>
                        /\ a > 1 /\ L[a - 1].what = "begin"
                        /\ L[a - 1].t = L[a].t /\ L[a - 1].ev = L[a].ev)
                  /\ (L[a].ev = "start_delay" /\ L[a].what = "end" =>
                        L[a].at >= L[a - 1].at + cfg.START_DELAY)
                  /\ (L[a].ev = "cooldown" /\ L[a].what = "end" =>
                        L[a].at >= L[a - 1].at + cfg.COOLDOWN_SEC)
                  /\ (L[a].ev \in Phases /\ cfg.START_DELAY > 0 =>
                        /\ L[1].ev = "start_delay" /\ L[2].ev = "start_delay"
                        /\ L[2].what = "end" /\ a > 2)
                  /\ (L[a].ev \in Phases /\ L[a].t > 1 =>
                        \E c \in 1..(a - 1) :
                            /\ L[c].ev = "cooldown" /\ L[c].what = "end"
                            /\ L[c].t = L[a].t - 1)
            /\ (pc = "m_done" =>
                  \A t \in 1..Len(cfg.TARGETS) : \A ev \in Phases :
                      PhaseEnabled(ev) =>
                          \E a \in 1..Len(L) :
                              L[a].t = t /\ L[a].ev = ev /\ L[a].what = "end")

(* both targets ran all three phases, after a start delay and a cooldown *)
C18_Witness ==
    /\ pc = "m_done" /\ cfg.START_DELAY > 0 /\ cfg.COOLDOWN_SEC > 0
    /\ cfg.WARMUP_K > 0 /\ cfg.RUN_STREAM # 0 /\ cfg.RUN_BATCH # 0
    /\ \E a \in 1..Len(main.log) :
          main.log[a] = [ t |-> 2, ev |-> "batch", what |-> "end" ]

(* C12: in a paced steady-state run two successive replacement submissions *)
(* are never closer than inter_arrival to each other.                      *)
C12_RefillSpacing == InRun => ~run.short_gap

(* C13: a failed request that completed after t_end is not counted in      *)
(* fails, in either loop.                                                  *)
C13_LateFailureNotCounted ==
    InRun => (~run.last.ok /\ run.last.fin > run.t_end => ~run.last.counted)

(* C14: a successful request that completed at or before t_end is recorded *)
(* in results whenever the runner harvests it.                             *)
C14_InWindowSuccessRecorded ==
    InRun => (run.last.ok /\ run.last.fin >= 0 /\ run.last.fin <= run.t_end
                 => run.last.counted)

PhaseRank(p) ==
    CASE p = "idle" -> 0
      [] p = "SEEDING" -> 1
      [] p = "ADMITTING" -> 2
      [] p = "DRAINING" -> 3
      [] p = "DONE" -> 4

(* C15: the phase of a steady-state run never moves backward; from         *)
(* DRAINING on no step submits a request or calls the selector; and the    *)
(* step that emits the summary ends in a state with no future outstanding. *)
C15_PhasesForward ==
    [][ /\ PhaseRank(run'.phase) >= PhaseRank(run.phase)
        /\ (run.phase \in {"DRAINING", "DONE"} =>
               /\ Len(reqs') = Len(reqs)
               /\ picks' = picks)
        /\ (run.phase # "idle" /\ run'.summary # run.summary =>
               /\ run'.phase = "DONE"
               /\ Outstanding' = {}) ]_vars

(* a run that drained two futures and emitted its summary *)
C15_Witness ==
    /\ pc = "rc_done" /\ run.phase = "DONE" /\ Len(run.summary) = 1
    /\ cfg.CONCURRENCY = 2 /\ Len(reqs) >= 2 /\ Outstanding = {}
    /\ run.last.fin > run.t_end

(* C19: in a steady-state run the futures harvested so far number          *)
(* results + fails + discarded, one selector call was made per submission, *)
(* and at DONE none is outstanding and the reported n is Len(results).     *)
C19_HarvestedOnce ==
    InRun =>
        /\ Len(reqs) = Len(picks)
        /\ Len(reqs) - Cardinality(Outstanding)
              = Len(run.results) + run.fails + run.discarded
        /\ (pc = "rc_done" =>
              /\ Outstanding = {}
              /\ Len(reqs) = Len(run.results) + run.fails + run.discarded
              /\ (Len(run.results) > 0 =>
                    /\ run.summary[1].kind = "report"
                    /\ run.summary[1].n = Len(run.results)
                    /\ run.summary[1].fails = run.fails))

(* a finished run with a recorded success, a failure and a late success *)
C19_Witness ==
    /\ pc = "rc_done" /\ Len(reqs) = 3
    /\ Len(run.results) = 1 /\ run.fails = 1 /\ run.discarded = 1

(* C16: the throughput a batched-burst run reports is its number of        *)
(* successful requests over the sum of its batch times, and 0 when that    *)
(* sum is 0.                                                               *)
C16_ThroughputOfSuccesses ==
    pc = "bt_done" =>
        LET s == batch.summary[1]
        IN  IF s.sum > 0 THEN s.effRPS[1] * s.sum = batch.total_ok * s.effRPS[2]
            ELSE s.effRPS[1] = 0

(* C16, amended: the throughput a batched-burst run reports is its number  *)
(* of requests, batches * batch_requests = successes + failures, over the  *)
(* sum of its batch times, and 0 when that sum is 0.                       *)
C16_ThroughputOfRequests ==
    pc = "bt_done" =>
        LET s == batch.summary[1]
        IN  /\ s.sum = SumSeq(batch.batch_times, Len(batch.batch_times))
            /\ batch.batches * batch.batch_requests = batch.total_ok + batch.total_fail
            /\ IF s.sum > 0
               THEN s.effRPS[1] * s.sum
                       = (batch.total_ok + batch.total_fail) * s.effRPS[2]
               ELSE s.effRPS[1] = 0

(* a finished run with a success, a failure and a positive sum of times *)
C16_Witness ==
    /\ pc = "bt_done" /\ batch.total_ok > 0 /\ batch.total_fail > 0
    /\ batch.summary[1].sum > 0

(* C17: in both runners one selector call was made per submitted request   *)
(* and the i-th request carries the i-th label the selector returned, in   *)
(* whatever order the requests complete.                                   *)
C17_LabelOfPick ==
    pc \in RunPcs \cup BatchPcs =>
        /\ Len(reqs) = Len(picks)
        /\ \A f \in Outstanding : reqs[f].job = picks[f]

(* the second request, labelled B, finished before the first *)
C17_Witness ==
    /\ pc \in RunPcs /\ Len(reqs) >= 2
    /\ reqs[1].st = "running" /\ reqs[2].st = "done"
    /\ picks[2] = "B" /\ reqs[2].job = "B" /\ reqs[2].ret[1] = "B"

(* a step of a worker thread: a future starts or finishes *)
WorkerStep ==
    /\ Len(reqs') = Len(reqs)
    /\ \E f \in 1..Len(reqs) :
          /\ reqs[f].st \in {"pending", "running"}
          /\ reqs'[f].st # reqs[f].st

Harvested(r) == Len(r.results) + r.fails + r.discarded

(* C20: a step of a worker thread leaves the collections of both runners   *)
(* unchanged; a step that writes them is a step of the coordinating thread *)
(* that accounts for exactly one future, and no completed future           *)
(* is lost.                                                                *)
C20_SingleWriter ==
    [][ /\ (WorkerStep => run' = run /\ batch' = batch)
        /\ (run.phase # "idle" /\ Harvested(run') # Harvested(run) =>
               /\ Harvested(run') = Harvested(run) + 1
               /\ \E f \in Completed :
                     /\ reqs' = [ reqs EXCEPT ![f] = Gone ]
                     /\ run.in_flight \cup run.done = Outstanding
                     /\ run'.in_flight \cup run'.done = Outstanding \ {f})
        /\ (batch.phase # "idle" /\ batch'.ok + batch'.fail > batch.ok + batch.fail =>
               /\ batch'.ok + batch'.fail = batch.ok + batch.fail + 1
               /\ \E f \in Completed \ batch.yielded :
                     batch'.yielded = batch.yielded \cup {f}) ]_vars

(* two requests finished on their workers before the coordinating thread   *)
(* harvested the first of them                                             *)
C20_Witness ==
    /\ pc = "rc_record" /\ Cardinality(Completed) = 2 /\ run.done # {}

====
